---- MODULE Spec2Model ----
(***************************************************************************)
(* Model of src/src/affine.rs: affine transformations of images.           *)
(*                                                                         *)
(* f32 values are modelled as exact rationals <<n, d>> (d > 0, lowest      *)
(* terms) together with NaN == <<0, 0>>, whose comparisons are all false   *)
(* and which every arithmetic operation propagates.  Rounding error,       *)
(* overflow to infinity and underflow of f32 are not modelled.             *)
(* i32 / u32 / usize keep a finite width (I32Bits, UsizeBits), scaled down *)
(* so that the wrapped values fit the model checker's integers, with       *)
(* usize wider than i32 as on every target of the crate.                   *)
(* Pixels are single-channel u8 values (Luma<u8>, as in the tests).        *)
(***************************************************************************)
EXTENDS Integers, Sequences, FiniteSets, TLC

\* ------------------------------------------------------------------ bounds
\* Largest image width and height drawn for the input image.
MaxDim == 3
\* Largest magnitude of the small translation offsets / matrix translations.
MaxShift == 4
\* Width in bits of the model's i32 and u32 (two's complement).
I32Bits == 8
\* Width in bits of the model's usize; always wider than I32Bits.
UsizeBits == 12

\* Channels per pixel: P::CHANNEL_COUNT for Luma.
ChannelCount == 1
\* u8 range of a channel.
SubpixelMin == 0
SubpixelMax == 255

RECURSIVE Pow2(_)
Pow2(n) == IF n = 0 THEN 1 ELSE 2 * Pow2(n - 1)

I32Min == -Pow2(I32Bits - 1)
I32Max == Pow2(I32Bits - 1) - 1
U32Max == Pow2(I32Bits) - 1
UsizeMod == Pow2(UsizeBits)

\* ------------------------------------------------------------- f32 values
Abs(n) == IF n < 0 THEN -n ELSE n

RECURSIVE GCD(_, _)
GCD(a, b) == IF b = 0 THEN a ELSE GCD(b, a % b)

\* The rational n/d (d > 0) in lowest terms.
Norm(n, d) == LET g == GCD(Abs(n), d) IN <<n \div g, d \div g>>

NaN == <<0, 0>>
IsNaN(a) == a[2] = 0

\* `k as f32` for an integer k.
R(k) == <<k, 1>>

RNeg(a) == IF IsNaN(a) THEN NaN ELSE <<-a[1], a[2]>>
RAdd(a, b) == IF IsNaN(a) \/ IsNaN(b) THEN NaN
              ELSE Norm(a[1] * b[2] + b[1] * a[2], a[2] * b[2])
RSub(a, b) == RAdd(a, RNeg(b))
RMul(a, b) == IF IsNaN(a) \/ IsNaN(b) THEN NaN
              ELSE Norm(a[1] * b[1], a[2] * b[2])
\* a / b.  The only divisions of the program divide by a determinant that
\* compared unequal to 0.0, so b is non-zero or NaN whenever this is used.
RDiv(a, b) == IF IsNaN(a) \/ IsNaN(b) \/ b[1] = 0 THEN NaN
              ELSE IF b[1] > 0 THEN Norm(a[1] * b[2], a[2] * b[1])
              ELSE Norm(-(a[1] * b[2]), a[2] * (-b[1]))

\* IEEE comparisons: every comparison with NaN is false.
RLt(a, b) == ~IsNaN(a) /\ ~IsNaN(b) /\ a[1] * b[2] < b[1] * a[2]
RGt(a, b) == RLt(b, a)
RGe(a, b) == ~IsNaN(a) /\ ~IsNaN(b) /\ a[1] * b[2] >= b[1] * a[2]
REq(a, b) == ~IsNaN(a) /\ ~IsNaN(b) /\ a = b

\* f32::floor
Floor(a) == IF IsNaN(a) THEN NaN ELSE <<a[1] \div a[2], 1>>
\* f32::round: nearest integer, halves away from zero.
Round(a) == IF IsNaN(a) THEN NaN
            ELSE IF a[1] >= 0 THEN <<(2 * a[1] + a[2]) \div (2 * a[2]), 1>>
            ELSE <<-((2 * (-a[1]) + a[2]) \div (2 * a[2])), 1>>

\* `v as u32` for an f32 v: truncates toward zero, saturates, NaN gives 0.
as_u32(a) == IF IsNaN(a) THEN 0
             ELSE IF a[1] < 0 THEN 0
             ELSE IF a[1] \div a[2] > U32Max THEN U32Max
             ELSE a[1] \div a[2]

IsInteger(a) == ~IsNaN(a) /\ a[2] = 1

\* ------------------------------------------------------- channel capability
\* cast(u): a channel value as f32.
cast(u) == R(u)
\* P::Subpixel::clamp for u8: into the channel's range, then `as u8`.
clamp(v) == IF RLt(v, R(SubpixelMin)) THEN SubpixelMin
            ELSE IF RGt(v, R(SubpixelMax)) THEN SubpixelMax
            ELSE as_u32(v)

\* HasBlack::black()
black == 0

\* ---------------------------------------------------------------- images
\* An image is [width, height, data]: data is the row-major channel buffer.
ImageBuffer_new(w, h) ==
    [width |-> w, height |-> h, data |-> [i \in 1..(w * h * ChannelCount) |-> 0]]

InBounds(img, px, py) == px >= 0 /\ px < img.width /\ py >= 0 /\ py < img.height

\* Marker for the value of an out-of-range unchecked read.
Undef == -1

\* GenericImageView::unsafe_get_pixel
unsafe_get_pixel(img, px, py) ==
    IF InBounds(img, px, py) THEN img.data[(py * img.width + px) * ChannelCount + 1]
    ELSE Undef

\* GenericImage::unsafe_put_pixel (only defined in range).
unsafe_put_pixel(img, px, py, pix) ==
    IF InBounds(img, px, py)
    THEN [img EXCEPT !.data[(py * img.width + px) * ChannelCount + 1] = pix]
    ELSE img

\* The pixels of an image as a function of the coordinate pair.
Coords(img) == (0..(img.width - 1)) \X (0..(img.height - 1))

\* ------------------------------------------------------- Affine2 / Point2
from_matrix_unchecked(t) == [transform |-> t]

Point2_new(px, py) == [x |-> px, y |-> py]

\* Det with the sign of the middle cofactor term slipped.
Det_sign_slip(t) ==
    LET m00 == RSub(RMul(t[5], t[9]), RMul(t[6], t[8]))
        m01 == RSub(RMul(t[4], t[9]), RMul(t[6], t[7]))
        m02 == RSub(RMul(t[4], t[8]), RMul(t[5], t[7]))
    IN RAdd(RAdd(RMul(t[1], m00), RMul(t[2], m01)), RMul(t[3], m02))

\* The determinant as try_inverse computes it (cofactors of the first row).
Det(t) ==
    LET m00 == RSub(RMul(t[5], t[9]), RMul(t[6], t[8]))
        m01 == RSub(RMul(t[4], t[9]), RMul(t[6], t[7]))
        m02 == RSub(RMul(t[4], t[8]), RMul(t[5], t[7]))
    IN RAdd(RSub(RMul(t[1], m00), RMul(t[2], m01)), RMul(t[3], m02))

\* `det == 0.0`
DetIsZero(det) == REq(det, R(0))

\* InverseEntries without the transposition: the cofactor matrix over det.
InverseEntries_untransposed(t, det) ==
    LET m00 == RSub(RMul(t[5], t[9]), RMul(t[6], t[8]))
        m01 == RSub(RMul(t[4], t[9]), RMul(t[6], t[7]))
        m02 == RSub(RMul(t[4], t[8]), RMul(t[5], t[7]))
        m10 == RSub(RMul(t[2], t[9]), RMul(t[3], t[8]))
        m11 == RSub(RMul(t[1], t[9]), RMul(t[3], t[7]))
        m12 == RSub(RMul(t[1], t[8]), RMul(t[2], t[7]))
        m20 == RSub(RMul(t[2], t[6]), RMul(t[3], t[5]))
        m21 == RSub(RMul(t[1], t[6]), RMul(t[3], t[4]))
        m22 == RSub(RMul(t[1], t[5]), RMul(t[2], t[4]))
    IN << RDiv(m00, det), RDiv(RNeg(m01), det), RDiv(m02, det),
          RDiv(RNeg(m10), det), RDiv(m11, det), RDiv(RNeg(m12), det),
          RDiv(m20, det), RDiv(RNeg(m21), det), RDiv(m22, det) >>

\* The nine entries try_inverse returns on success.
InverseEntries(t, det) ==
    LET m00 == RSub(RMul(t[5], t[9]), RMul(t[6], t[8]))
        m01 == RSub(RMul(t[4], t[9]), RMul(t[6], t[7]))
        m02 == RSub(RMul(t[4], t[8]), RMul(t[5], t[7]))
        m10 == RSub(RMul(t[2], t[9]), RMul(t[3], t[8]))
        m11 == RSub(RMul(t[1], t[9]), RMul(t[3], t[7]))
        m12 == RSub(RMul(t[1], t[8]), RMul(t[2], t[7]))
        m20 == RSub(RMul(t[2], t[6]), RMul(t[3], t[5]))
        m21 == RSub(RMul(t[1], t[6]), RMul(t[3], t[4]))
        m22 == RSub(RMul(t[1], t[5]), RMul(t[2], t[4]))
    IN << RDiv(m00, det), RDiv(RNeg(m10), det), RDiv(m20, det),
          RDiv(RNeg(m01), det), RDiv(m11, det), RDiv(RNeg(m21), det),
          RDiv(m02, det), RDiv(RNeg(m12), det), RDiv(m22, det) >>

\* Affine2::try_inverse: [some |-> FALSE] is None.
try_inverse(a) ==
    LET det == Det(a.transform)
    IN IF DetIsZero(det) THEN [some |-> FALSE, transform |-> <<>>]
       ELSE [some |-> TRUE, transform |-> InverseEntries(a.transform, det)]

\* mul with the x translation reused for y.
mul_same_offset(a, rhs) ==
    LET t == a.transform
    IN [x |-> RAdd(RAdd(RMul(t[1], rhs.x), RMul(t[2], rhs.y)), t[3]),
        y |-> RAdd(RAdd(RMul(t[4], rhs.x), RMul(t[5], rhs.y)), t[3])]

\* impl Mul<Point2> for Affine2
mul(a, rhs) ==
    LET t == a.transform
    IN [x |-> RAdd(RAdd(RMul(t[1], rhs.x), RMul(t[2], rhs.y)), t[3]),
        y |-> RAdd(RAdd(RMul(t[4], rhs.x), RMul(t[5], rhs.y)), t[6])]

\* ------------------------------------------------------ sampling primitives
\* A sample is [pix, reads]: the pixel returned and the coordinates read
\* through unsafe_get_pixel to produce it.

\* nearest's range test with the upper bounds inclusive.
nearest_out_of_bound_inclusive(img, rx, ry) ==
    \/ RLt(rx, R(0))
    \/ RGt(rx, R(img.width))
    \/ RLt(ry, R(0))
    \/ RGt(ry, R(img.height))

\* nearest's `rx < 0 || rx >= width || ry < 0 || ry >= height`
nearest_out_of_bound(img, rx, ry) ==
    \/ RLt(rx, R(0))
    \/ RGe(rx, R(img.width))
    \/ RLt(ry, R(0))
    \/ RGe(ry, R(img.height))

nearest(img, px, py, default) ==
    LET rx == Round(px)
        ry == Round(py)
    IN IF nearest_out_of_bound(img, rx, ry)
       THEN [pix |-> default, reads |-> {}]
       ELSE [pix |-> unsafe_get_pixel(img, as_u32(rx), as_u32(ry)),
             reads |-> {<<as_u32(rx), as_u32(ry)>>}]

\* Lerp with the two weights exchanged.
Lerp_swapped(u, v, w) ==
    clamp(RAdd(RMul(w, cast(u)), RMul(RSub(R(1), w), cast(v))))

\* (1 - w) * u + w * v, clamped back to the channel type.
Lerp(u, v, w) ==
    clamp(RAdd(RMul(RSub(R(1), w), cast(u)), RMul(w, cast(v))))

blend(top_left, top_right, bottom_left, bottom_right, right_weight, bottom_weight) ==
    LET top == Lerp(top_left, top_right, right_weight)
        bottom == Lerp(bottom_left, bottom_right, right_weight)
    IN Lerp(top, bottom, bottom_weight)

\* interpolate's range test on the floor corner alone.
interpolate_out_of_bound_floor_only(img, left, right, top, bottom) ==
    \/ RLt(left, R(0))
    \/ RGe(left, R(img.width))
    \/ RLt(top, R(0))
    \/ RGe(top, R(img.height))

\* interpolate's `left < 0 || right >= width || top < 0 || bottom >= height`
interpolate_out_of_bound(img, left, right, top, bottom) ==
    \/ RLt(left, R(0))
    \/ RGe(right, R(img.width))
    \/ RLt(top, R(0))
    \/ RGe(bottom, R(img.height))

interpolate(img, px, py, default) ==
    LET left == Floor(px)
        right == RAdd(left, R(1))
        top == Floor(py)
        bottom == RAdd(top, R(1))
        right_weight == RSub(px, left)
        bottom_weight == RSub(py, top)
    IN IF interpolate_out_of_bound(img, left, right, top, bottom)
       THEN [pix |-> default, reads |-> {}]
       ELSE [pix |-> blend(unsafe_get_pixel(img, as_u32(left), as_u32(top)),
                           unsafe_get_pixel(img, as_u32(right), as_u32(top)),
                           unsafe_get_pixel(img, as_u32(left), as_u32(bottom)),
                           unsafe_get_pixel(img, as_u32(right), as_u32(bottom)),
                           right_weight, bottom_weight),
             reads |-> {<<as_u32(left), as_u32(top)>>, <<as_u32(right), as_u32(top)>>,
                        <<as_u32(left), as_u32(bottom)>>, <<as_u32(right), as_u32(bottom)>>}]

Sample(interpolation, img, px, py, default) ==
    IF interpolation = "Nearest" THEN nearest(img, px, py, default)
    ELSE interpolate(img, px, py, default)

\* ------------------------------------------------------------------ state
VARIABLES
    pc,               \* "idle", the loop being run, "done" or "panic"
    op,               \* the entry point that was called
    overflow_checks,  \* build profile: TRUE panics on integer overflow (debug),
                      \* FALSE wraps (release)
    image,            \* the input image of the call
    args,             \* the other arguments and the per-call locals
    out,              \* the output image
    allocated,        \* whether the call has allocated an output image
    written,          \* the output coordinates written so far
    x, y,             \* loop position
    px, py,           \* rotation's running pre-image coordinate
    ret,              \* "" while running; "None", "Some" (Option) or "Image"
    acc,              \* the unchecked accesses of the last step: <<kind, x, y>>
    wrapped,          \* an integer computation of the call left its type's range
    copy,             \* translate: <<in_base, out_base, len>> of the last bulk copy
    sample            \* the pixel a directly called primitive returned

vars == <<pc, op, overflow_checks, image, args, out, allocated, written,
          x, y, px, py, ret, acc, wrapped, copy, sample>>

\* ----------------------------------------------------------------- inputs
Frac(n, d) == Norm(n, d)

\* The pixel patterns of the input images: the tests' gray_image rows
\* (00, 01, 02; 10, 11, 12; ...) and a ramp that wraps in u8.
PixelAt(pattern, cx, cy) ==
    IF pattern = "gray" THEN 10 * cy + cx
    ELSE (100 + 7 * cx + 50 * cy) % (SubpixelMax + 1)

MkImage(w, h, pattern) ==
    [width |-> w, height |-> h,
     data |-> [i \in 1..(w * h) |-> PixelAt(pattern, (i - 1) % w, (i - 1) \div w)]]

Patterns == {"gray", "ramp"}
Images == {MkImage(w, h, p) : w \in 0..MaxDim, h \in 0..MaxDim, p \in Patterns}
GrayImages == {MkImage(w, h, "gray") : w \in 0..MaxDim, h \in 0..MaxDim}
NonEmptyImages == {img \in Images : img.width > 0 /\ img.height > 0}

NoImage == [width |-> 0, height |-> 0, data |-> <<>>]

Interpolations == {"Nearest", "Bilinear"}

\* A default colour that is no pixel of any input image.
UserDefault == 99

Identity == <<R(1), R(0), R(0), R(0), R(1), R(0), R(0), R(0), R(1)>>
Translation(tx, ty) == <<R(1), R(0), R(tx), R(0), R(1), R(ty), R(0), R(0), R(1)>>
IntMatrix(m) == [i \in 1..9 |-> R(m[i])]

Shifts == (-MaxShift)..MaxShift
TranslationMatrices == {Translation(tx, ty) : tx \in Shifts, ty \in Shifts}

\* Matrices with determinant 0.
SingularMatrices ==
    { IntMatrix(<<0, 0, 0, 0, 0, 0, 0, 0, 0>>),
      IntMatrix(<<1, 2, 3, 2, 4, 6, 0, 0, 1>>),
      IntMatrix(<<1, 0, 5, 0, 1, 7, 0, 0, 0>>),
      IntMatrix(<<1, 1, 0, 1, 1, 0, 0, 0, 1>>) }

\* Invertible matrices that are no translation: scalings, a shear, a quarter
\* turn, a flip, one whose last row is not [0, 0, 1], a far translation, and
\* one with NaN entries.
OtherMatrices ==
    { IntMatrix(<<2, 0, 0, 0, 2, 0, 0, 0, 1>>),
      <<Frac(1, 2), R(0), R(0), R(0), Frac(1, 2), R(0), R(0), R(0), R(1)>>,
      <<R(1), Frac(1, 2), R(0), R(0), R(1), Frac(1, 4), R(0), R(0), R(1)>>,
      IntMatrix(<<0, 1, 0, -1, 0, 2, 0, 0, 1>>),
      IntMatrix(<<-1, 0, 2, 0, 1, 0, 0, 0, 1>>),
      IntMatrix(<<1, 0, 0, 0, 1, 0, 1, 1, 1>>),
      IntMatrix(<<1, 0, 1000, 0, 1, -1000, 0, 0, 1>>),
      <<NaN, R(0), R(0), R(0), R(1), R(0), R(0), R(0), R(1)>> }

AffineMatrices == TranslationMatrices \cup SingularMatrices \cup OtherMatrices

\* Matrices for try_inverse alone: every 3x3 matrix over {-1, 0, 1}.
MatrixEntries == {-1, 0, 1}
SmallMatrices == {IntMatrix(m) : m \in [1..9 -> MatrixEntries]}

\* Angles whose cosine and sine are rational, and NaN.
Thetas == {"0", "pi/2", "pi", "-pi/2", "-pi", "atan(4/3)", "NaN"}
Cos(theta) ==
    CASE theta = "0" -> R(1)
      [] theta \in {"pi/2", "-pi/2"} -> R(0)
      [] theta \in {"pi", "-pi"} -> R(-1)
      [] theta = "atan(4/3)" -> Frac(3, 5)
      [] OTHER -> NaN
Sin(theta) ==
    CASE theta \in {"0", "pi", "-pi"} -> R(0)
      [] theta = "pi/2" -> R(1)
      [] theta = "-pi/2" -> R(-1)
      [] theta = "atan(4/3)" -> Frac(4, 5)
      [] OTHER -> NaN

\* Centre coordinates: the half-integers of the image area, and NaN.
CenterValues == {Frac(k, 2) : k \in 0..MaxDim} \cup {NaN}
Centers == CenterValues \X CenterValues

\* Pre-image coordinates for the sampling primitives: quarter steps across
\* the image and one pixel beyond it, far values and NaN.
CoordValues == {Frac(k, 4) : k \in (-6)..(4 * MaxDim + 2)}
                   \cup {R(-1000), R(1000), NaN}

NoArgs ==
    [transform |-> <<>>, inverse |-> <<>>, default |-> 0, interpolation |-> "",
     center |-> <<R(0), R(0)>>, theta |-> "", cos_theta |-> R(0), sin_theta |-> R(0),
     t |-> <<0, 0>>, qx |-> R(0), qy |-> R(0)]

\* ------------------------------------------------------------------- Init
Init ==
    /\ pc = "idle"
    /\ op = ""
    /\ overflow_checks \in BOOLEAN
    /\ image = NoImage
    /\ args = NoArgs
    /\ out = NoImage
    /\ allocated = FALSE
    /\ written = {}
    /\ x = 0
    /\ y = 0
    /\ px = R(0)
    /\ py = R(0)
    /\ ret = ""
    /\ acc = {}
    /\ wrapped = FALSE
    /\ copy = <<>>
    /\ sample = 0

\* `for y in 0..height { for x in 0..width { .. } }`: the position after (x, y).
NextXY(cx, cy, width) == IF cx + 1 < width THEN <<cx + 1, cy>> ELSE <<0, cy + 1>>
\* The pixel loops have no iteration left.
LoopDone(cy, img) == cy >= img.height \/ img.width = 0

Accesses(reads, wx, wy) == {<<"read", r[1], r[2]>> : r \in reads} \cup {<<"write", wx, wy>>}

\* ---------------------------------------------------- affine_with_default
\* Entry of affine_with_default: inversion, early return, allocation.
AffineEnter(name, img, m, default, interpolation) ==
    LET inv == try_inverse(from_matrix_unchecked(m))
    IN /\ op' = name
       /\ image' = img
       /\ IF ~inv.some
          THEN /\ pc' = "done"
               /\ ret' = "None"
               /\ args' = [NoArgs EXCEPT !.transform = m, !.default = default,
                                         !.interpolation = interpolation]
               /\ UNCHANGED <<out, allocated>>
          ELSE /\ pc' = "affine_with_default"
               /\ ret' = ""
               /\ args' = [NoArgs EXCEPT !.transform = m, !.inverse = inv.transform,
                                         !.default = default,
                                         !.interpolation = interpolation]
               /\ out' = ImageBuffer_new(img.width, img.height)
               /\ allocated' = TRUE
       /\ UNCHANGED <<overflow_checks, written, x, y, px, py, acc, wrapped, copy, sample>>

affine_with_default ==
    /\ pc = "idle"
    /\ \E img \in Images, m \in AffineMatrices, interpolation \in Interpolations :
        AffineEnter("affine_with_default", img, m, UserDefault, interpolation)

\* affine: default fixed to P::black().
affine ==
    /\ pc = "idle"
    /\ \E img \in GrayImages, m \in AffineMatrices, interpolation \in Interpolations :
        AffineEnter("affine", img, m, black, interpolation)

\* One iteration of the pixel loop of affine_with_default.
affine_with_default_step ==
    /\ pc = "affine_with_default"
    /\ ~LoopDone(y, image)
    /\ LET preimage == mul(from_matrix_unchecked(args.inverse), Point2_new(R(x), R(y)))
           s == Sample(args.interpolation, image, preimage.x, preimage.y, args.default)
           n == NextXY(x, y, image.width)
       IN /\ out' = unsafe_put_pixel(out, x, y, s.pix)
          /\ written' = written \cup {<<x, y>>}
          /\ acc' = Accesses(s.reads, x, y)
          /\ x' = n[1]
          /\ y' = n[2]
    /\ UNCHANGED <<pc, op, overflow_checks, image, args, allocated, px, py, ret, wrapped, copy, sample>>

affine_with_default_return ==
    /\ pc = "affine_with_default"
    /\ LoopDone(y, image)
    /\ pc' = "done"
    /\ ret' = "Some"
    /\ acc' = {}
    /\ UNCHANGED <<op, overflow_checks, image, args, out, allocated, written,
                   x, y, px, py, wrapped, copy, sample>>

\* ---------------------------------------------------------------- rotation
\* rotate_with_default: dispatch on the interpolation, then the entry of
\* rotate_nearest / rotate_bilinear (allocation, cos and sin).
RotateEnter(name, img, center, theta, default, interpolation) ==
    /\ op' = name
    /\ image' = img
    /\ pc' = IF interpolation = "Nearest" THEN "rotate_nearest" ELSE "rotate_bilinear"
    /\ args' = [NoArgs EXCEPT !.center = center, !.theta = theta, !.default = default,
                              !.interpolation = interpolation,
                              !.cos_theta = Cos(theta), !.sin_theta = Sin(theta)]
    /\ out' = ImageBuffer_new(img.width, img.height)
    /\ allocated' = TRUE
    /\ UNCHANGED <<overflow_checks, written, x, y, px, py, ret, acc, wrapped, copy, sample>>

rotate_with_default ==
    /\ pc = "idle"
    /\ \E img \in Images, center \in Centers, theta \in Thetas,
       interpolation \in Interpolations :
        RotateEnter("rotate_with_default", img, center, theta, UserDefault, interpolation)

rotate ==
    /\ pc = "idle"
    /\ \E img \in GrayImages, center \in {c \in Centers : IsInteger(c[1]) /\ IsInteger(c[2])},
       theta \in Thetas, interpolation \in Interpolations :
        RotateEnter("rotate", img, center, theta, black, interpolation)

rotate_about_center ==
    /\ pc = "idle"
    /\ \E img \in GrayImages, theta \in Thetas, interpolation \in Interpolations :
        RotateEnter("rotate_about_center", img,
                    <<RDiv(R(img.width), R(2)), RDiv(R(img.height), R(2))>>,
                    theta, black, interpolation)

\* RowStart with the sign of sin_theta * center_x slipped.
RowStart_sign_slip(cy, center, cos_theta, sin_theta) ==
    LET center_x == center[1]
        center_y == center[2]
        dy == RSub(R(cy), center_y)
    IN << RSub(RAdd(center_x, RMul(sin_theta, dy)), RMul(cos_theta, center_x)),
          RSub(RAdd(center_y, RMul(cos_theta, dy)), RMul(sin_theta, center_x)) >>

\* The pre-image of (0, y): the start of output row y.
RowStart(cy, center, cos_theta, sin_theta) ==
    LET center_x == center[1]
        center_y == center[2]
        dy == RSub(R(cy), center_y)
    IN << RSub(RAdd(center_x, RMul(sin_theta, dy)), RMul(cos_theta, center_x)),
          RAdd(RAdd(center_y, RMul(cos_theta, dy)), RMul(sin_theta, center_x)) >>

\* One iteration of the inner loop of rotate_nearest / rotate_bilinear; the
\* row's start is computed on entering the row.
RotateStep(interpolation) ==
    /\ ~LoopDone(y, image)
    /\ LET p == IF x = 0 THEN RowStart(y, args.center, args.cos_theta, args.sin_theta)
                ELSE <<px, py>>
           s == Sample(interpolation, image, p[1], p[2], args.default)
           n == NextXY(x, y, image.width)
       IN /\ out' = unsafe_put_pixel(out, x, y, s.pix)
          /\ written' = written \cup {<<x, y>>}
          /\ acc' = Accesses(s.reads, x, y)
          /\ px' = RAdd(p[1], args.cos_theta)
          /\ py' = RSub(p[2], args.sin_theta)
          /\ x' = n[1]
          /\ y' = n[2]
    /\ UNCHANGED <<pc, op, overflow_checks, image, args, allocated, ret, wrapped, copy, sample>>

rotate_nearest_step == pc = "rotate_nearest" /\ RotateStep("Nearest")

rotate_bilinear_step == pc = "rotate_bilinear" /\ RotateStep("Bilinear")

rotate_return ==
    /\ pc \in {"rotate_nearest", "rotate_bilinear"}
    /\ LoopDone(y, image)
    /\ pc' = "done"
    /\ ret' = "Image"
    /\ acc' = {}
    /\ UNCHANGED <<op, overflow_checks, image, args, out, allocated, written,
                   x, y, px, py, wrapped, copy, sample>>

\* --------------------------------------------------------------- translate
Min(a, b) == IF a < b THEN a ELSE b
Max(a, b) == IF a > b THEN a ELSE b

InI32(v) == v >= I32Min /\ v <= I32Max
\* The i32 a wrapping operation leaves for the exact result v.
WrapI32(v) == ((v - I32Min) % (U32Max + 1)) + I32Min
InU32(v) == v >= 0 /\ v <= U32Max
WrapU32(v) == v % (U32Max + 1)
InUsize(v) == v >= 0 /\ v < UsizeMod
WrapUsize(v) == v % UsizeMod
\* `u as i32` for a u32 u; `i as usize` for an i32 i (sign-extending).
u32_as_i32(u) == WrapI32(u)
i32_as_usize(i) == i % UsizeMod

\* ImageBuffer::get_pixel / put_pixel are bounds-checked: they panic outside.
get_pixel(img, cx, cy) == unsafe_get_pixel(img, cx, cy)

\* `y_in as usize * width as usize - (t.0 as usize)`: the exact value of the
\* subtraction of the tx <= 0 branch, before it is brought back into usize.
LeftInBaseExact(y_in, width, tx) == y_in * width - i32_as_usize(tx)

\* The row index `y as i32 - t.1`, exact.
RowDeltaExact(cy, ty) == u32_as_i32(cy) - ty

\* dst[out_base..][..len].copy_from_slice(&src[in_base..][..len])
SliceOk(data, base, len) == base <= Len(data) /\ len <= Len(data) - base
CopySlice(dst, out_base, src, in_base, len) ==
    [i \in 1..Len(dst) |->
        IF i > out_base /\ i <= out_base + len THEN src[in_base + (i - out_base)]
        ELSE dst[i]]

\* Fill columns lo..hi-1 of row cy with pix (put_pixel in a loop).
FillRow(img, cy, lo, hi, pix) ==
    [img EXCEPT !.data = [i \in 1..Len(img.data) |->
        IF i - 1 >= cy * img.width + lo /\ i - 1 < cy * img.width + hi THEN pix
        ELSE img.data[i]]]

\* The body of translate's `for y in 0..height` for row cy, under the build
\* profile `checks`.  Returns [panic, wrapped, out, copy, cols]: whether the
\* row panicked, whether an integer operation left its range, the output
\* image after the row, the <<in_base, out_base, len>> of the bulk copy
\* (<<>> if none) and the columns written.
TranslateRow(img, o, cy, t, checks) ==
    LET width == img.width
        w == u32_as_i32(img.width)
        h == u32_as_i32(img.height)
        tx == t[1]
        ty == t[2]
        dExact == RowDeltaExact(cy, ty)
        hm1Exact == h - 1
        ovfRow == ~InI32(dExact) \/ ~InI32(hm1Exact)
        y_in == Max(0, Min(WrapI32(dExact), WrapI32(hm1Exact)))
        failed(ovf, oob) == (ovf /\ checks) \/ oob
        nothing == [panic |-> TRUE, wrapped |-> ovfRow, out |-> o, copy |-> <<>>, cols |-> {}]
    IN IF ovfRow /\ checks THEN nothing
       ELSE IF tx > 0
       THEN \* ---- t.0 > 0
            IF ~InBounds(img, 0, y_in) THEN nothing
            ELSE LET p_min == get_pixel(img, 0, y_in)
                     filled == FillRow(o, cy, 0, Min(tx, w), p_min)
                     in_base == (y_in * width) * ChannelCount
                     out_base == (cy * width + i32_as_usize(tx)) * ChannelCount
                     lenExact == w - tx
                     len == i32_as_usize(WrapI32(lenExact)) * ChannelCount
                     ovfCopy == ~InUsize(in_base) \/ ~InUsize(out_base)
                                    \/ ~InI32(lenExact) \/ ~InUsize(len)
                 IN IF ~(tx < w)
                    THEN [panic |-> FALSE, wrapped |-> ovfRow, out |-> filled,
                          copy |-> <<>>, cols |-> 0..(Min(tx, w) - 1)]
                    ELSE IF failed(ovfCopy, ~SliceOk(o.data, WrapUsize(out_base), WrapUsize(len))
                                             \/ ~SliceOk(img.data, WrapUsize(in_base), WrapUsize(len)))
                    THEN [nothing EXCEPT !.wrapped = ovfRow \/ ovfCopy, !.out = filled]
                    ELSE [panic |-> FALSE, wrapped |-> ovfRow \/ ovfCopy,
                          out |-> [filled EXCEPT !.data =
                                     CopySlice(filled.data, WrapUsize(out_base), img.data,
                                               WrapUsize(in_base), WrapUsize(len))],
                          copy |-> <<WrapUsize(in_base), WrapUsize(out_base), WrapUsize(len)>>,
                          cols |-> 0..(width - 1)]
       ELSE \* ---- t.0 <= 0
            LET lastExact == width - 1
                ovfLast == ~InU32(lastExact)
                last == WrapU32(lastExact)
            IN IF failed(ovfLast, ~InBounds(img, last, y_in))
               THEN [nothing EXCEPT !.wrapped = ovfRow \/ ovfLast]
               ELSE LET p_max == get_pixel(img, last, y_in)
                        sExact == w + tx
                        s == WrapI32(sExact)
                        filled == FillRow(o, cy, Max(s, 0), w, p_max)
                        inExact == LeftInBaseExact(y_in, width, tx)
                        in_base == WrapUsize(inExact) * ChannelCount
                        out_base == (cy * width) * ChannelCount
                        len == i32_as_usize(s) * ChannelCount
                        ovfAdd == ~InI32(sExact)
                        ovfCopy == ~InUsize(inExact) \/ ~InUsize(in_base)
                                       \/ ~InUsize(out_base) \/ ~InUsize(len)
                    IN IF ovfAdd /\ checks
                       THEN [nothing EXCEPT !.wrapped = TRUE]
                       ELSE IF ~(s > 0)
                       THEN [panic |-> FALSE, wrapped |-> ovfRow \/ ovfLast \/ ovfAdd,
                             out |-> filled, copy |-> <<>>,
                             cols |-> Max(s, 0)..(width - 1)]
                       ELSE IF failed(ovfCopy, ~SliceOk(o.data, WrapUsize(out_base), WrapUsize(len))
                                                \/ ~SliceOk(img.data, WrapUsize(in_base), WrapUsize(len)))
                       THEN [nothing EXCEPT !.wrapped = ovfRow \/ ovfLast \/ ovfAdd \/ ovfCopy,
                                            !.out = filled]
                       ELSE [panic |-> FALSE,
                             wrapped |-> ovfRow \/ ovfLast \/ ovfAdd \/ ovfCopy,
                             out |-> [filled EXCEPT !.data =
                                        CopySlice(filled.data, WrapUsize(out_base), img.data,
                                                  WrapUsize(in_base), WrapUsize(len))],
                             copy |-> <<WrapUsize(in_base), WrapUsize(out_base), WrapUsize(len)>>,
                             cols |-> 0..(width - 1)]

\* Offsets: the small ones and the ends of i32.
Offsets == ((-MaxShift)..MaxShift) \cup {I32Min, I32Min + 1, I32Max}

\* Entry of translate: allocation of the output.
translate ==
    /\ pc = "idle"
    /\ \E img \in Images, tx \in Offsets, ty \in Offsets :
        /\ op' = "translate"
        /\ pc' = "translate"
        /\ image' = img
        /\ args' = [NoArgs EXCEPT !.t = <<tx, ty>>]
        /\ out' = ImageBuffer_new(img.width, img.height)
        /\ allocated' = TRUE
    /\ UNCHANGED <<overflow_checks, written, x, y, px, py, ret, acc, wrapped, copy, sample>>

\* One iteration of translate's row loop.
translate_row ==
    /\ pc = "translate"
    /\ y < image.height
    /\ LET r == TranslateRow(image, out, y, args.t, overflow_checks)
       IN /\ pc' = IF r.panic THEN "panic" ELSE "translate"
          /\ out' = r.out
          /\ wrapped' = (wrapped \/ r.wrapped)
          /\ copy' = r.copy
          /\ written' = written \cup {<<c, y>> : c \in r.cols}
          /\ y' = IF r.panic THEN y ELSE y + 1
    /\ UNCHANGED <<op, overflow_checks, image, args, allocated, x, px, py, ret, acc, sample>>

translate_return ==
    /\ pc = "translate"
    /\ y >= image.height
    /\ pc' = "done"
    /\ ret' = "Image"
    /\ UNCHANGED <<op, overflow_checks, image, args, out, allocated, written,
                   x, y, px, py, acc, wrapped, copy, sample>>

\* ------------------------------------------- the primitives called directly
\* try_inverse on a matrix of its own.
try_inverse_call ==
    /\ pc = "idle"
    /\ \E m \in SmallMatrices \cup AffineMatrices :
        LET inv == try_inverse(from_matrix_unchecked(m))
        IN /\ op' = "try_inverse"
           /\ pc' = "done"
           /\ ret' = IF inv.some THEN "Some" ELSE "None"
           /\ args' = [NoArgs EXCEPT !.transform = m, !.inverse = inv.transform]
    /\ UNCHANGED <<overflow_checks, image, out, allocated, written, x, y, px, py,
                   acc, wrapped, copy, sample>>

\* nearest / interpolate at a pre-image coordinate of their own.  Every call
\* site is inside a pixel loop, so the image has at least one pixel; every
\* coordinate is the pre-image of (0, 0) under some translation.
SampleCall(name, interpolation) ==
    /\ \E img \in NonEmptyImages, qx \in CoordValues, qy \in CoordValues :
        LET s == Sample(interpolation, img, qx, qy, UserDefault)
        IN /\ op' = name
           /\ pc' = "done"
           /\ image' = img
           /\ args' = [NoArgs EXCEPT !.qx = qx, !.qy = qy, !.default = UserDefault,
                                     !.interpolation = interpolation]
           /\ sample' = s.pix
           /\ acc' = {<<"read", r[1], r[2]>> : r \in s.reads}
    /\ UNCHANGED <<overflow_checks, out, allocated, written, x, y, px, py,
                   ret, wrapped, copy>>

nearest_call == pc = "idle" /\ SampleCall("nearest", "Nearest")

interpolate_call == pc = "idle" /\ SampleCall("interpolate", "Bilinear")

Next ==
    \/ affine_with_default
    \/ affine
    \/ affine_with_default_step
    \/ affine_with_default_return
    \/ rotate_with_default
    \/ rotate
    \/ rotate_about_center
    \/ rotate_nearest_step
    \/ rotate_bilinear_step
    \/ rotate_return
    \/ translate
    \/ translate_row
    \/ translate_return
    \/ try_inverse_call
    \/ nearest_call
    \/ interpolate_call

Spec == Init /\ [][Next]_vars

\* ================================================================= claims
\* Reference definitions used by the properties below; none is used by the
\* model of the code above.
PixelOf(img, cx, cy) == img.data[cy * img.width + cx + 1]
SameDimensions(o, img) ==
    /\ o.width = img.width
    /\ o.height = img.height
    /\ Len(o.data) = img.width * img.height * ChannelCount
Finite(m) == \A i \in 1..Len(m) : ~IsNaN(m[i])

\* The determinant by the rule of Sarrus.
SarrusDet(t) ==
    RSub(RSub(RSub(RAdd(RAdd(RMul(RMul(t[1], t[5]), t[9]), RMul(RMul(t[2], t[6]), t[7])),
                        RMul(RMul(t[3], t[4]), t[8])),
                   RMul(RMul(t[3], t[5]), t[7])),
              RMul(RMul(t[2], t[4]), t[9])),
         RMul(RMul(t[1], t[6]), t[8]))

\* Entry (i, j), 0-based, of a row-major 3x3 matrix.
Entry(t, i, j) == t[3 * i + j + 1]
\* The 2x2 minor that deletes row i and column j.
Minor(t, i, j) ==
    LET rows == IF i = 0 THEN <<1, 2>> ELSE IF i = 1 THEN <<0, 2>> ELSE <<0, 1>>
        cols == IF j = 0 THEN <<1, 2>> ELSE IF j = 1 THEN <<0, 2>> ELSE <<0, 1>>
    IN RSub(RMul(Entry(t, rows[1], cols[1]), Entry(t, rows[2], cols[2])),
            RMul(Entry(t, rows[1], cols[2]), Entry(t, rows[2], cols[1])))
\* Entry (i, j) of the adjugate: the cofactor of (j, i).
Adjugate(t, i, j) ==
    IF (i + j) % 2 = 0 THEN Minor(t, j, i) ELSE RNeg(Minor(t, j, i))
MatMul(a, b) ==
    [k \in 1..9 |->
        LET i == (k - 1) \div 3
            j == (k - 1) % 3
        IN RAdd(RAdd(RMul(Entry(a, i, 0), Entry(b, 0, j)),
                     RMul(Entry(a, i, 1), Entry(b, 1, j))),
                RMul(Entry(a, i, 2), Entry(b, 2, j)))]

AffineOps == {"affine", "affine_with_default"}
RotateOps == {"rotate", "rotate_about_center", "rotate_with_default"}

\* C1: affine_with_default and affine return None exactly when the
\* determinant of the matrix is 0, allocating no image; otherwise they return
\* Some(image) of the input's dimensions with every pixel written; affine's
\* default is black; they never panic.
C1_AffineNoneIffSingular ==
    op \in AffineOps =>
        /\ pc # "panic"
        /\ (op = "affine" => args.default = black)
        /\ pc = "done" =>
            /\ ret \in {"None", "Some"}
            /\ (ret = "None") <=> REq(SarrusDet(args.transform), R(0))
            /\ ret = "None" => (~allocated /\ out = NoImage /\ written = {})
            /\ ret = "Some" =>
                (allocated /\ SameDimensions(out, image) /\ written = Coords(image))

\* C1 witness: a non-zero matrix of determinant 0 was refused on a 3x3 image.
C1_Witness ==
    /\ op = "affine_with_default"
    /\ pc = "done"
    /\ ret = "None"
    /\ args.transform = IntMatrix(<<1, 2, 3, 2, 4, 6, 0, 0, 1>>)
    /\ image.width = 3 /\ image.height = 3

\* The affine call was given the translation matrix of an integer (tx, ty).
IsTranslation(m) == m \in TranslationMatrices

\* C5: for [1,0,tx; 0,1,ty; 0,0,1] and Nearest, output pixel (x, y) is input
\* pixel (x - tx, y - ty) when that lies in the image and the default
\* otherwise; for the identity the output is the input.
C5_AffineTranslationNearest ==
    (op \in AffineOps /\ pc = "done" /\ args.interpolation = "Nearest"
        /\ IsTranslation(args.transform)) =>
        LET tx == args.transform[3][1]
            ty == args.transform[6][1]
        IN /\ ret = "Some"
           /\ SameDimensions(out, image)
           /\ \A c \in Coords(image) :
                PixelOf(out, c[1], c[2]) =
                    IF InBounds(image, c[1] - tx, c[2] - ty)
                    THEN PixelOf(image, c[1] - tx, c[2] - ty)
                    ELSE args.default
           /\ (tx = 0 /\ ty = 0) => out = image

\* C5 witness: test_affine, the 3x3 gray image moved by (1, 1) with black.
C5_Witness ==
    /\ op = "affine"
    /\ pc = "done"
    /\ args.interpolation = "Nearest"
    /\ args.transform = Translation(1, 1)
    /\ image = MkImage(3, 3, "gray")
    /\ out.data = <<0, 0, 0, 0, 0, 1, 0, 10, 11>>

\* C8: try_inverse of a matrix with non-zero determinant returns the adjugate
\* divided by the determinant, a two-sided inverse; of a matrix with
\* determinant 0 it returns None.
C8_TryInverseIsInverse ==
    (op = "try_inverse" /\ pc = "done" /\ Finite(args.transform)) =>
        LET m == args.transform
            d == SarrusDet(m)
        IN IF d = R(0) THEN ret = "None"
           ELSE /\ ret = "Some"
                /\ \A i \in 0..2, j \in 0..2 :
                     Entry(args.inverse, i, j) = RDiv(Adjugate(m, i, j), d)
                /\ MatMul(m, args.inverse) = Identity
                /\ MatMul(args.inverse, m) = Identity

\* C8 witness: a matrix of determinant 2 whose last row is not [0, 0, 1].
C8_Witness ==
    /\ op = "try_inverse"
    /\ pc = "done"
    /\ ret = "Some"
    /\ args.transform = IntMatrix(<<1, 1, 0, -1, 1, 0, 1, 0, 1>>)
    /\ Entry(args.inverse, 0, 0) = Frac(1, 2)

\* The quarter turns: (cos, sin) in {(1,0), (0,1), (-1,0), (0,-1)}.
QuarterTurns == {"0", "pi/2", "pi", "-pi/2", "-pi"}

\* The pre-image of output pixel (cx, cy) under the rotation, in closed form.
RotPreX(center, theta, cx, cy) ==
    RAdd(RAdd(center[1], RMul(Cos(theta), RSub(R(cx), center[1]))),
         RMul(Sin(theta), RSub(R(cy), center[2])))
RotPreY(center, theta, cx, cy) ==
    RAdd(RSub(center[2], RMul(Sin(theta), RSub(R(cx), center[1]))),
         RMul(Cos(theta), RSub(R(cy), center[2])))
PreImagesIntegral(img, center, theta) ==
    \A c \in Coords(img) :
        /\ IsInteger(RotPreX(center, theta, c[1], c[2]))
        /\ IsInteger(RotPreY(center, theta, c[1], c[2]))

\* C4: nearest-neighbour rotation by a quarter turn about a centre that makes
\* the pre-images integral puts at (x, y) the input pixel at the pre-image
\* when that is inside the input and the default otherwise; by 0 radians it
\* reproduces the input; by a half turn about ((w-1)/2, (h-1)/2) it gives
\* out(x, y) = in(w-1-x, h-1-y).
C4_RotateNearestQuarterTurns ==
    (op \in RotateOps /\ pc = "done" /\ args.interpolation = "Nearest"
        /\ args.theta \in QuarterTurns
        /\ PreImagesIntegral(image, args.center, args.theta)) =>
        /\ SameDimensions(out, image)
        /\ \A c \in Coords(image) :
            LET qx == RotPreX(args.center, args.theta, c[1], c[2])[1]
                qy == RotPreY(args.center, args.theta, c[1], c[2])[1]
            IN PixelOf(out, c[1], c[2]) =
                 IF InBounds(image, qx, qy) THEN PixelOf(image, qx, qy)
                 ELSE args.default
        /\ args.theta = "0" => out = image
        /\ (args.theta \in {"pi", "-pi"}
              /\ args.center = <<Frac(image.width - 1, 2), Frac(image.height - 1, 2)>>) =>
            \A c \in Coords(image) :
                PixelOf(out, c[1], c[2]) =
                    PixelOf(image, image.width - 1 - c[1], image.height - 1 - c[2])

\* C4 witness: the quarter-turn test, [[0,1,2],[10,11,12]] about (1, 0) with
\* default 99 gives [[11,1,99],[12,2,99]].
C4_Witness ==
    /\ op = "rotate_with_default"
    /\ pc = "done"
    /\ args.interpolation = "Nearest"
    /\ args.theta = "pi/2"
    /\ args.center = <<R(1), R(0)>>
    /\ image = MkImage(3, 2, "gray")
    /\ out.data = <<11, 1, 99, 12, 2, 99>>

\* interpolate was called at an integer coordinate inside the image.
AtIntegerPixel ==
    /\ op = "interpolate"
    /\ pc = "done"
    /\ IsInteger(args.qx)
    /\ IsInteger(args.qy)
    /\ InBounds(image, args.qx[1], args.qy[1])

\* C6 as stated: bilinear interpolation at every integer coordinate (x, y)
\* with 0 <= x < width and 0 <= y < height returns the input pixel at (x, y).
C6_Original_InterpolateAtEveryPixel ==
    AtIntegerPixel => sample = PixelOf(image, args.qx[1], args.qy[1])

\* C6 amended: at an integer coordinate with 0 <= x < width - 1 and
\* 0 <= y < height - 1 interpolate returns the input pixel at (x, y); in the
\* last column or the last row it returns the default.
C6_InterpolateAtInteriorPixel ==
    AtIntegerPixel =>
        IF args.qx[1] < image.width - 1 /\ args.qy[1] < image.height - 1
        THEN sample = PixelOf(image, args.qx[1], args.qy[1])
        ELSE sample = args.default

\* C6 witness: interpolate at (1, 1) of a 3x3 ramp image returned pixel (1, 1).
C6_Witness ==
    /\ AtIntegerPixel
    /\ image = MkImage(3, 3, "ramp")
    /\ args.qx = R(1) /\ args.qy = R(1)
    /\ sample = 157

\* C7: interpolate returns the default and reads nothing when floor(x) < 0,
\* floor(x) + 1 >= width, floor(y) < 0 or floor(y) + 1 >= height; otherwise
\* it returns the blend of the four pixels around (x, y), whatever the
\* default.  (x, y) ranges over the coordinates that have a floor.
C7_InterpolateBorderPolicy ==
    (op = "interpolate" /\ pc = "done" /\ ~IsNaN(args.qx) /\ ~IsNaN(args.qy)) =>
        LET fx == args.qx[1] \div args.qx[2]
            fy == args.qy[1] \div args.qy[2]
        IN IF fx < 0 \/ fx + 1 >= image.width \/ fy < 0 \/ fy + 1 >= image.height
           THEN sample = args.default /\ acc = {}
           ELSE /\ sample = blend(PixelOf(image, fx, fy), PixelOf(image, fx + 1, fy),
                                  PixelOf(image, fx, fy + 1), PixelOf(image, fx + 1, fy + 1),
                                  RSub(args.qx, R(fx)), RSub(args.qy, R(fy)))
                /\ acc = {<<"read", fx, fy>>, <<"read", fx + 1, fy>>,
                          <<"read", fx, fy + 1>>, <<"read", fx + 1, fy + 1>>}

\* C7 witness: floor(x) = 1 is a column of a 2-wide image but floor(x) + 1 is
\* not, and the default came back.
C7_Witness ==
    /\ op = "interpolate"
    /\ pc = "done"
    /\ image.width = 2 /\ image.height = 2
    /\ args.qx = Frac(5, 4) /\ args.qy = Frac(1, 4)
    /\ sample = args.default
    /\ acc = {}

\* C10: every unchecked read is inside the input image and every unchecked
\* write inside the output image.
C10_UncheckedAccessInRange ==
    \A a \in acc :
        IF a[1] = "read" THEN InBounds(image, a[2], a[3])
        ELSE InBounds(out, a[2], a[3])

\* C10 witness: a NaN pre-image coordinate passed nearest's range test and
\* pixel (0, 0) was read for an output pixel other than (0, 0).
C10_Witness ==
    /\ pc = "rotate_nearest"
    /\ IsNaN(args.center[1])
    /\ <<"read", 0, 0>> \in acc
    /\ <<"write", 1, 1>> \in acc

\* The edge-clamped source of output pixel (cx, cy) of translate.
Clamp(v, lo, hi) == IF v < lo THEN lo ELSE IF v > hi THEN hi ELSE v
NonEmpty(img) == img.width > 0 /\ img.height > 0

\* C2 as stated: for every non-empty image and every offset, translate
\* returns an image of the same dimensions with out(x, y) =
\* in(clamp(x - tx, 0, w - 1), clamp(y - ty, 0, h - 1)).
C2_TranslateClampsToEdge ==
    (op = "translate" /\ NonEmpty(image)) =>
        /\ pc # "panic"
        /\ pc = "done" =>
            /\ SameDimensions(out, image)
            /\ \A c \in Coords(image) :
                PixelOf(out, c[1], c[2]) =
                    PixelOf(image, Clamp(c[1] - args.t[1], 0, image.width - 1),
                                   Clamp(c[2] - args.t[2], 0, image.height - 1))

\* C3 as stated: translate and the rotation family complete for every input,
\* empty images included, and return a full image of the input's dimensions.
C3_TranslateAndRotateTotal ==
    op \in RotateOps \cup {"translate"} =>
        /\ pc # "panic"
        /\ pc = "done" =>
            (ret = "Image" /\ SameDimensions(out, image) /\ written = Coords(image))

\* C9 as stated: in translate on a non-empty image no integer computation
\* leaves the range of its type, and the ranges of each bulk copy lie inside
\* the buffers.
C9_TranslateNoOverflow ==
    (op = "translate" /\ NonEmpty(image)) =>
        /\ ~wrapped
        /\ copy # <<>> =>
            /\ copy[1] + copy[3] <= Len(image.data)
            /\ copy[2] + copy[3] <= Len(out.data)

====
